---- MODULE Spec2Model ----
(***************************************************************************)
(* Model of sensor_ssh.py: the SQM session classes (SQM, SQMLE, SQMLU).    *)
(* One foreground thread calls the session's methods; start_continuous_read*)
(* spawns listener threads running _listen.  The device and the transport  *)
(* are the environment: a queue of frames pending on the open handle.      *)
(*                                                                         *)
(* Bytes and text are sequences of integers (byte values / code points).   *)
(* time.sleep calls are pauses: they change no state and are folded into   *)
(* the step before them; the settle delay (long_s) is recorded in trace.   *)
(* _read_buffer (recv/readline followed by the append) is one step.        *)
(***************************************************************************)
EXTENDS Integers, Sequences, FiniteSets, TLC

\* ------------------------------------------------------------------ bounds
MaxTries == 2
MaxFrames == 2
MaxWire == 2
MaxStale == 1
MaxWorkers == 2
MaxReplies == 2
MaxQueued == 2

\* range(100) in SQMLU._search
NumPorts == 100

\* ------------------------------------------------------------------- text
\* str.strip() removes these code points (Python's Unicode whitespace below 256)
Whitespace == {9, 10, 11, 12, 13, 28, 29, 30, 31, 32, 133, 160}

\* bytes.decode(utf8): one- and two-byte sequences; anything else raises
RECURSIVE Utf8Valid(_)
Utf8Valid(b) ==
  IF b = <<>> THEN TRUE
  ELSE IF b[1] < 128 THEN Utf8Valid(Tail(b))
  ELSE IF b[1] >= 194 /\ b[1] <= 223 /\ Len(b) >= 2 /\ b[2] >= 128 /\ b[2] <= 191
       THEN Utf8Valid(Tail(Tail(b)))
  ELSE FALSE

RECURSIVE Utf8Text(_)
Utf8Text(b) ==
  IF b = <<>> THEN <<>>
  ELSE IF b[1] < 128 THEN <<b[1]>> \o Utf8Text(Tail(b))
  ELSE <<(b[1] - 192) * 64 + (b[2] - 128)>> \o Utf8Text(Tail(Tail(b)))

RECURSIVE LStrip(_)
LStrip(t) == IF t # <<>> /\ t[1] \in Whitespace THEN LStrip(Tail(t)) ELSE t

RECURSIVE RStrip(_)
RStrip(t) ==
  IF t # <<>> /\ t[Len(t)] \in Whitespace THEN RStrip(SubSeq(t, 1, Len(t) - 1)) ELSE t

Strip(t) == RStrip(LStrip(t))

\* ------------------------------------------------------ values and frames
NoAddr == <<"none", 0>>
\* configs_ssh.device_addr
device_addr == <<"cfg", 0>>

None == [k |-> "None", b |-> <<>>]
Bytes(b) == [k |-> "bytes", b |-> b]
\* the outcome of recv/readline: an exception, or the bytes read
Raised == [k |-> "raise", b |-> <<>>]

\* "i\n", " é" (UTF-8 c3 a9) and a lone 0xff (not UTF-8)
Frames == {<<105, 10>>, <<32, 195, 169>>, <<255>>}

\* python truthiness of a _read_buffer result
Truthy(r) == r.k = "bytes" /\ r.b # <<>>

\* SQMLE._read_buffer / SQMLU._read_buffer, given what recv/readline did:
\* the value returned
ReadBufferRet(rx) ==
  IF rx.k = "raise" THEN None
  ELSE IF Utf8Valid(rx.b) /\ Utf8Text(rx.b) = <<>> THEN None
  ELSE Bytes(rx.b)

\* whether it appends to self.data, and the line it appends
ReadBufferAppends(rx) == rx.k = "bytes" /\ Utf8Valid(rx.b) /\ Utf8Text(rx.b) # <<>>

\* a _read_buffer that stores the decoded payload as it came
ReadBufferLineMut(rx) == Utf8Text(rx.b)

\* the line _read_buffer appends: m.decode(utf8).strip()
ReadBufferLine(rx) == Strip(Utf8Text(rx.b))

\* a start_connection that connects to the configured address whatever self.addr is
StartConnectionTargetMut(self_addr) == device_addr

\* start_connection connects to self.addr
StartConnectionTarget(self_addr) == self_addr

\* a send_and_receive that trims its reply
ReplyMut(byte_m) == Strip(Utf8Text(byte_m.b))

\* m = byte_m.decode(utf8), the value send_and_receive returns on success
Reply(byte_m) == Utf8Text(byte_m.b)

\* an off-by-one test of the retry budget
ExhaustedMut(t) == t < 0

\* if tries <= 0: no attempt is left
Exhausted(t) == t <= 0

\* the try block of send_and_receive: assert byte_m != None; byte_m.decode(utf8)
SanityOk(byte_m) == byte_m # None /\ Utf8Valid(byte_m.b)

SanityError(byte_m) == IF byte_m = None THEN "AssertionError" ELSE "UnicodeDecodeError"

\* -------------------------------------------------------------- discovery
Found(a) == [status |-> "return", err |-> "", addr |-> a, opened |-> 0, printed |-> <<>>]
NotFound(e, n) == [status |-> "raise", err |-> e, addr |-> NoAddr, opened |-> n, printed |-> <<>>]

\* SQMLE._search.  The environment is the script of the polling loop: each entry is
\* what one recvfrom did (a datagram from src whose decoded text has code point mk
\* at index 3, dec = whether buf.decode(hex)[3] evaluates without raising; or no
\* datagram, which raises) and whether more than 3 s had passed by then (late).
\* After the script no datagram arrives and the window has passed.
\* The test of line 191 compares one character with the two characters "f7".
MarkerTest(e) == e.dec /\ <<e.mk>> = <<102, 55>>

RECURSIVE LeLoop(_, _, _)
LeLoop(script, a, printed) ==
  IF script = <<>> THEN [addr |-> a, printed |-> printed]
  ELSE LET e == Head(script) IN
    IF e.k = "dgram"
    THEN IF e.dec
         THEN LeLoop(Tail(script), e.src,
                     IF MarkerTest(e) THEN Append(printed, e.src) ELSE printed)
         ELSE IF e.late THEN [addr |-> e.src, printed |-> printed]
              ELSE LeLoop(Tail(script), e.src, printed)
    ELSE IF e.late THEN [addr |-> a, printed |-> printed]
         ELSE LeLoop(Tail(script), a, printed)

SQMLE_search(script) ==
  LET r == LeLoop(script, NoAddr, <<>>) IN
  IF r.addr = NoAddr
  THEN [NotFound("AssertionError", 0) EXCEPT !.printed = r.printed]
  ELSE [Found(r.addr) EXCEPT !.printed = r.printed]

\* SQMLU._search.  The environment is sys.platform and, per candidate index, whether
\* serial.Serial(port) opens and the bytes readline() returns (b"" on timeout).
PortsFor(platform) ==
  IF platform = "linux2" THEN [i \in 1..NumPorts |-> <<"/dev/ttyUSB", i - 1>>]
  ELSE IF platform = "win32" THEN [i \in 1..NumPorts |-> <<"COM", i - 1>>]
  ELSE <<>>

\* one turn of the for loop on a candidate: what serial.Serial, write and
\* readline().decode(utf8)[0] == "i" do
LuProbe(p) ==
  IF ~p.open THEN "SerialException"
  ELSE IF ~Utf8Valid(p.reply) THEN "UnicodeDecodeError"
  ELSE IF Utf8Text(p.reply) = <<>> THEN "IndexError"
  ELSE IF Utf8Text(p.reply)[1] = 105 THEN "break"
  ELSE "continue"

\* the for loop: it runs to the first candidate whose turn does not continue
LuLoop(ports, beh) ==
  LET ends == {i \in 1..Len(ports) : LuProbe(beh[i - 1]) # "continue"} IN
  IF ends = {} THEN NotFound("AssertionError", Len(ports))
  ELSE LET i == CHOOSE x \in ends : \A y \in ends : x <= y
           how == LuProbe(beh[i - 1])
       IN IF how = "break" THEN [Found(ports[i]) EXCEPT !.opened = i]
          ELSE NotFound(how, IF how = "SerialException" THEN i - 1 ELSE i)

SQMLU_search(e) == LuLoop(PortsFor(e.platform), e.beh)

\* the environments the searches are checked on
Addrs == {<<"ip", 1>>, <<"ip", 2>>}
LeEvents ==
  [k : {"dgram"}, src : Addrs, mk : {247, 0}, dec : BOOLEAN, late : BOOLEAN]
  \cup [k : {"nodata"}, src : {NoAddr}, mk : {0}, dec : {FALSE}, late : BOOLEAN]
LeScripts ==
  {s \in UNION {[1..n -> LeEvents] : n \in 0..MaxReplies} :
     \A i \in 1..Len(s) : \A j \in i..Len(s) : s[i].late => s[j].late}

Silent == [open |-> TRUE, reply |-> <<>>]
Unopenable == [open |-> FALSE, reply |-> <<>>]
\* "iXYZ", "r\n", a lone 0xff
PortBehaviours ==
  {Silent, Unopenable, [open |-> TRUE, reply |-> <<105, 88, 89, 90>>],
   [open |-> TRUE, reply |-> <<114, 10>>], [open |-> TRUE, reply |-> <<255>>]}
\* sys.platform of the interpreters that run this file (Python 3: never "linux2")
Platforms == {"linux", "win32", "darwin"}
SpecialPorts == {0, 7, 8}
LuEnvs ==
  {[platform |-> pl,
    beh |-> [i \in 0..(NumPorts - 1) |-> IF i = j THEN bj ELSE IF i = 7 THEN b7 ELSE dflt]] :
     pl \in Platforms, j \in SpecialPorts, bj \in PortBehaviours,
     b7 \in PortBehaviours, dflt \in PortBehaviours}
NoEnv == <<>>
NoResult == NotFound("", 0)

\* ------------------------------------------------------------------ state
VARIABLES
  kind,      \* the class of the session: "LE" (SQMLE) or "LU" (SQMLU)
  debug,     \* configs_ssh.debug
  addr,      \* self.addr
  peer,      \* the address the last start_connection() connected to or tried
  conn,      \* self.s: "open" (connected) or "closed" (closed or never connected)
  wire,      \* frames the device has sent that no read has consumed yet
  emitted,   \* number of frames the device has sent since the session began
  data,      \* self.data
  live,      \* self.live
  t1,        \* self.t1: the listener thread started last (0: none)
  wpc,       \* per listener thread: "none", "check", "poll", "exited"
  fpc,       \* where the foreground thread is
  tries,     \* the tries argument of the innermost send_and_receive (0 outside one)
  d,         \* the local copy d of _return_collected
  outcome,   \* the foreground's current or last call and how it ended
  tries0,    \* history: the tries argument of the outermost send_and_receive
  trace,     \* history: send / settle / read / close / open of that call
  readLog,   \* history: what each read of line 76 returned in that call
  appended,  \* history: number of lines ever appended to self.data
  lastDrain, \* history: the drain under way or the last one
  prevDrain, \* history: the drain before it
  quiet,     \* history: appended when stop_continuous_read last returned,
             \* -1 once the foreground reads the transport or starts a listener
  env,       \* the discovery environment (the search specifications' input)
  located,   \* what _search did
  searches,  \* history: number of _search calls
  closes,    \* history: number of self.s.close() calls since the handle was last opened
  tdLast     \* history: what the last read of the loop of _close_connection returned

vars ==
  <<kind, debug, addr, peer, conn, wire, emitted, data, live, t1, wpc, fpc, tries, d,
    outcome, tries0, trace, readLog, appended, lastDrain, prevDrain, quiet,
    env, located, searches, closes, tdLast>>

Workers == 1..MaxWorkers

NoDrain == [valid |-> FALSE, got |-> <<>>, cleared |-> <<>>, app0 |-> 0, app1 |-> 0]
Pending(op) == [op |-> op, k |-> "pending", text |-> <<>>, err |-> ""]
Returns(op, t) == [op |-> op, k |-> "return", text |-> t, err |-> ""]
Raises(op, e) == [op |-> op, k |-> "raise", text |-> <<>>, err |-> e]

StaleWires == UNION {[1..n -> Frames] : n \in 0..MaxStale}

\* what recv (SQMLE) / readline (SQMLU) can do now: raise on a handle that is not
\* open; with nothing pending, time out (recv raises, readline returns b"") or
\* return b"" (peer closed); otherwise the oldest pending frame
RecvSet ==
  IF conn # "open" THEN {Raised}
  ELSE IF wire = <<>> THEN {Raised, Bytes(<<>>)}
  ELSE {Bytes(Head(wire))}

WireAfter(rx) == IF rx.k = "bytes" /\ rx.b # <<>> THEN Tail(wire) ELSE wire
DataAfter(buf, rx) == IF ReadBufferAppends(rx) THEN Append(buf, ReadBufferLine(rx)) ELSE buf

Init ==
  /\ kind \in {"LE", "LU"}
  /\ debug \in BOOLEAN
  /\ addr = NoAddr
  /\ peer = NoAddr
  /\ conn = "closed"
  /\ wire \in StaleWires
  /\ emitted = 0
  /\ data = <<>>
  /\ live = FALSE
  /\ t1 = 0
  /\ wpc = [w \in Workers |-> "none"]
  /\ fpc = "new"
  /\ tries = 0
  /\ d = <<>>
  /\ outcome = Pending("__init__")
  /\ tries0 = 0
  /\ trace = <<>>
  /\ readLog = <<>>
  /\ appended = 0
  /\ lastDrain = NoDrain
  /\ prevDrain = NoDrain
  /\ quiet = -1
  /\ env = NoEnv
  /\ located = NoResult
  /\ searches = 0
  /\ closes = 0
  /\ tdLast = None

\* ---------------------------------------------------------------- device
DeviceEmit ==
  /\ conn = "open"
  /\ emitted < MaxFrames
  /\ Len(wire) < MaxWire
  /\ \E f \in Frames : wire' = Append(wire, f)
  /\ emitted' = emitted + 1
  /\ UNCHANGED <<kind, debug, addr, peer, conn, data, live, t1, wpc, fpc, tries, d, outcome,
                 tries0, trace, readLog, appended, lastDrain, prevDrain, quiet,
                 env, located, searches>>
  /\ UNCHANGED <<closes, tdLast>>

\* a device that keeps sending: whenever the handle is open another frame can be
\* pending.  The frame is the one of Frames that does not decode, which _read_buffer
\* returns without storing it, so self.data stays bounded.
DeviceStream ==
  /\ conn = "open"
  /\ Len(wire) < MaxWire
  /\ wire' = Append(wire, <<255>>)
  /\ UNCHANGED <<kind, debug, addr, peer, conn, emitted, data, live, t1, wpc, fpc, tries, d,
                 outcome, tries0, trace, readLog, appended, lastDrain, prevDrain, quiet,
                 env, located, searches, closes, tdLast>>

\* ----------------------------------------------------- session construction
\* the environments a constructor's _search is run in
CtorEnvs ==
  IF kind = "LE"
  THEN {<<>>, <<[k |-> "dgram", src |-> <<"ip", 1>>, mk |-> 247, dec |-> FALSE, late |-> TRUE]>>}
  ELSE {[platform |-> "win32", beh |-> [i \in 0..(NumPorts - 1) |-> Unopenable]],
        [platform |-> "win32",
         beh |-> [i \in 0..(NumPorts - 1) |->
                    IF i = 7 THEN [open |-> TRUE, reply |-> <<105, 88, 89, 90>>]
                    ELSE [open |-> TRUE, reply |-> <<114, 10>>]]],
        [platform |-> "linux", beh |-> [i \in 0..(NumPorts - 1) |-> Silent]]}

Search(e) == IF kind = "LE" THEN SQMLE_search(e) ELSE SQMLU_search(e)

\* __init__: self.data = []; self.addr = device_addr; start_connection()
CtorOpen ==
  /\ fpc = "new"
  /\ addr' = device_addr
  /\ peer' = StartConnectionTarget(addr')
  /\ data' = <<>>
  /\ \E ok \in BOOLEAN :
       /\ conn' = IF ok THEN "open" ELSE "closed"
       /\ fpc' = IF ok THEN "ctor_clear" ELSE "ctor_search"
  /\ UNCHANGED <<kind, debug, wire, emitted, live, t1, wpc, tries, d, outcome, tries0,
                 trace, readLog, appended, lastDrain, prevDrain, quiet, env, located,
                 searches>>
  /\ closes' = IF conn' = "open" THEN 0 ELSE closes
  /\ UNCHANGED <<tdLast>>

\* the except branch: self.addr = self._search()
CtorSearch ==
  /\ fpc = "ctor_search"
  /\ \E e \in CtorEnvs :
       LET r == Search(e) IN
       /\ located' = r
       /\ addr' = IF r.status = "return" THEN r.addr ELSE addr
       /\ fpc' = IF r.status = "return" THEN "ctor_open2" ELSE "failed"
       /\ outcome' = IF r.status = "return" THEN outcome ELSE Raises("__init__", r.err)
  /\ searches' = searches + 1
  /\ UNCHANGED <<kind, debug, peer, conn, wire, emitted, data, live, t1, wpc, tries, d, tries0,
                 trace, readLog, appended, lastDrain, prevDrain, quiet, env>>
  /\ UNCHANGED <<closes, tdLast>>

\* the except branch: self.start_connection() at the address found
CtorOpen2 ==
  /\ fpc = "ctor_open2"
  /\ \E ok \in BOOLEAN :
       /\ conn' = IF ok THEN "open" ELSE "closed"
       /\ fpc' = IF ok THEN "ctor_clear" ELSE "failed"
       /\ outcome' = IF ok THEN outcome ELSE Raises("__init__", "ConnectError")
  /\ peer' = StartConnectionTarget(addr)
  /\ UNCHANGED <<kind, debug, addr, wire, emitted, data, live, t1, wpc, tries, d, tries0,
                 trace, readLog, appended, lastDrain, prevDrain, quiet, env, located,
                 searches>>
  /\ closes' = IF conn' = "open" THEN 0 ELSE closes
  /\ UNCHANGED <<tdLast>>

\* self._clear_buffer(): one _read_buffer, printed
CtorClear ==
  /\ fpc = "ctor_clear"
  /\ \E rx \in RecvSet :
       /\ wire' = WireAfter(rx)
       /\ data' = DataAfter(data, rx)
       /\ appended' = appended + (IF ReadBufferAppends(rx) THEN 1 ELSE 0)
  /\ fpc' = "idle"
  /\ outcome' = Returns("__init__", <<>>)
  /\ UNCHANGED <<kind, debug, addr, peer, conn, emitted, live, t1, wpc, tries, d, tries0, trace,
                 readLog, lastDrain, prevDrain, quiet, env, located, searches>>
  /\ UNCHANGED <<closes, tdLast>>

\* -------------------------------------------------------- send_and_receive
\* a call send_and_receive(s, t); the command text s has no effect on the flow
SR_Call ==
  /\ fpc = "idle"
  /\ \E t \in 0..MaxTries : tries' = t /\ tries0' = t
  /\ fpc' = "sr_send"
  /\ outcome' = Pending("send_and_receive")
  /\ trace' = <<>>
  /\ readLog' = <<>>
  /\ lastDrain' = NoDrain
  /\ prevDrain' = NoDrain
  /\ UNCHANGED <<kind, debug, addr, peer, conn, wire, emitted, data, live, t1, wpc, d, appended,
                 quiet, env, located, searches>>
  /\ UNCHANGED <<closes, tdLast>>

\* self._send_command(s); time.sleep(long_s).  The write raises on a handle that is
\* not open and may raise on an open one; it is outside the try block.
SR_Send ==
  /\ fpc = "sr_send"
  /\ \E ok \in (IF conn = "open" THEN BOOLEAN ELSE {FALSE}) :
       IF ok
       THEN /\ trace' = trace \o <<"send", "settle">>
            /\ fpc' = "sr_read"
            /\ outcome' = outcome
       ELSE /\ trace' = trace
            /\ fpc' = "idle"
            /\ outcome' = Raises("send_and_receive", "WriteError")
  /\ tries' = IF fpc' = "idle" THEN 0 ELSE tries
  /\ UNCHANGED <<kind, debug, addr, peer, conn, wire, emitted, data, live, t1, wpc, d,
                 tries0, readLog, appended, lastDrain, prevDrain, quiet, env, located,
                 searches>>
  /\ UNCHANGED <<closes, tdLast>>

\* byte_m = self._read_buffer(), the try block and the branch of the except block
SR_Read ==
  /\ fpc = "sr_read"
  /\ \E rx \in RecvSet :
       LET byte_m == ReadBufferRet(rx) IN
       /\ wire' = WireAfter(rx)
       /\ data' = DataAfter(data, rx)
       /\ appended' = appended + (IF ReadBufferAppends(rx) THEN 1 ELSE 0)
       /\ readLog' = Append(readLog, byte_m)
       /\ IF SanityOk(byte_m)
          THEN /\ fpc' = "idle"
               /\ outcome' = Returns("send_and_receive", Reply(byte_m))
          ELSE IF Exhausted(tries)
          THEN /\ fpc' = "idle"
               /\ outcome' = IF debug THEN Raises("send_and_receive", SanityError(byte_m))
                             ELSE Returns("send_and_receive", <<>>)
          ELSE /\ fpc' = "sr_close"
               /\ outcome' = outcome
  /\ trace' = Append(trace, "read")
  /\ tries' = IF fpc' = "idle" THEN 0 ELSE tries
  /\ quiet' = -1
  /\ UNCHANGED <<kind, debug, addr, peer, conn, emitted, live, t1, wpc, d, tries0,
                 lastDrain, prevDrain, env, located, searches>>
  /\ UNCHANGED <<closes, tdLast>>

\* a _close_connection that closes after its first read, whatever it returned
CloseConnectionMut(here, next) ==
  /\ fpc = here
  /\ \E rx \in RecvSet :
       /\ data' = DataAfter(data, rx)
       /\ appended' = appended + (IF ReadBufferAppends(rx) THEN 1 ELSE 0)
       /\ tdLast' = ReadBufferRet(rx)
  /\ wire' = <<>>
  /\ conn' = "closed"
  /\ closes' = closes + 1
  /\ fpc' = next
  /\ trace' = Append(trace, "close")
  /\ quiet' = -1
  /\ UNCHANGED <<kind, debug, addr, peer, emitted, live, t1, wpc, tries, d, tries0,
                 readLog, lastDrain, prevDrain, env, located, searches>>

\* _close_connection: one turn of the loop (r = self._read_buffer()) and, once r is
\* falsy, self.s.close().  The caller is at position here and goes on at position next.
CloseConnection(here, next) ==
  /\ fpc = here
  /\ \E rx \in RecvSet :
       /\ data' = DataAfter(data, rx)
       /\ appended' = appended + (IF ReadBufferAppends(rx) THEN 1 ELSE 0)
       /\ tdLast' = ReadBufferRet(rx)
       /\ IF Truthy(ReadBufferRet(rx))
          THEN /\ wire' = WireAfter(rx)
               /\ UNCHANGED <<conn, fpc, trace, closes>>
          ELSE /\ wire' = <<>>
               /\ conn' = "closed"
               /\ closes' = closes + 1
               /\ fpc' = next
               /\ trace' = Append(trace, "close")
  /\ quiet' = -1
  /\ UNCHANGED <<kind, debug, addr, peer, emitted, live, t1, wpc, tries, d, tries0,
                 readLog, lastDrain, prevDrain, env, located, searches>>

\* a _close_connection that drains the handle and leaves it open
SR_CloseMut ==
  /\ fpc = "sr_close"
  /\ \E rx \in RecvSet :
       /\ data' = DataAfter(data, rx)
       /\ appended' = appended + (IF ReadBufferAppends(rx) THEN 1 ELSE 0)
       /\ wire' = WireAfter(rx)
       /\ tdLast' = ReadBufferRet(rx)
       /\ IF Truthy(ReadBufferRet(rx))
          THEN UNCHANGED <<fpc>>
          ELSE fpc' = "sr_open"
  /\ quiet' = -1
  /\ UNCHANGED <<kind, debug, addr, peer, conn, trace, emitted, live, t1, wpc, tries, d,
                 outcome, tries0, readLog, lastDrain, prevDrain, env, located, searches,
                 closes>>

\* _reset_device in the except block of send_and_receive, first half:
\* self._close_connection()
SR_Close ==
  /\ CloseConnection("sr_close", "sr_open")
  /\ UNCHANGED <<outcome>>

\* a reopen that goes back to the configured address, as __init__ does first
SR_OpenMut ==
  /\ fpc = "sr_open"
  /\ \E ok \in BOOLEAN :
       IF ok
       THEN /\ conn' = "open"
            /\ trace' = Append(trace, "open")
            /\ tries' = tries - 1
            /\ fpc' = "sr_send"
            /\ outcome' = outcome
       ELSE /\ conn' = "closed"
            /\ trace' = trace
            /\ tries' = 0
            /\ fpc' = "idle"
            /\ outcome' = Raises("send_and_receive", "ConnectError")
  /\ addr' = device_addr
  /\ peer' = StartConnectionTarget(addr')
  /\ closes' = IF conn' = "open" THEN 0 ELSE closes
  /\ UNCHANGED <<kind, debug, wire, emitted, data, live, t1, wpc, d, tries0, readLog,
                 appended, lastDrain, prevDrain, quiet, env, located, searches, tdLast>>

\* _reset_device, second half: start_connection() at self.addr, which may raise;
\* then the recursive call send_and_receive(s, tries - 1)
SR_Open ==
  /\ fpc = "sr_open"
  /\ \E ok \in BOOLEAN :
       IF ok
       THEN /\ conn' = "open"
            /\ trace' = Append(trace, "open")
            /\ tries' = tries - 1
            /\ fpc' = "sr_send"
            /\ outcome' = outcome
       ELSE /\ conn' = "closed"
            /\ trace' = trace
            /\ tries' = 0
            /\ fpc' = "idle"
            /\ outcome' = Raises("send_and_receive", "ConnectError")
  /\ peer' = StartConnectionTarget(addr)
  /\ UNCHANGED <<kind, debug, addr, wire, emitted, data, live, t1, wpc, d, tries0, readLog,
                 appended, lastDrain, prevDrain, quiet, env, located, searches>>
  /\ closes' = IF conn' = "open" THEN 0 ELSE closes
  /\ UNCHANGED <<tdLast>>

\* ------------------------------------------------ reset and teardown on their own
\* a call of _reset_device() or of _close_connection() on a session whose handle is
\* open (both are reached in this file through send_and_receive, after a write
\* that succeeded)
OwnCall(pc) ==
  /\ fpc = "idle"
  /\ conn = "open"
  /\ fpc' = pc
  /\ tries' = 0
  /\ tries0' = 0
  /\ trace' = <<>>
  /\ readLog' = <<>>
  /\ lastDrain' = NoDrain
  /\ prevDrain' = NoDrain
  /\ UNCHANGED <<kind, debug, addr, peer, conn, wire, emitted, data, live, t1, wpc, d,
                 appended, quiet, env, located, searches, closes, tdLast>>

Reset_Call ==
  /\ OwnCall("rs_close")
  /\ outcome' = Pending("_reset_device")

\* _reset_device: self._close_connection()
Reset_Close ==
  /\ CloseConnection("rs_close", "rs_open")
  /\ UNCHANGED <<outcome>>

\* _reset_device: time.sleep(short_s); self.start_connection()
Reset_Open ==
  /\ fpc = "rs_open"
  /\ \E ok \in BOOLEAN :
       IF ok
       THEN /\ conn' = "open"
            /\ closes' = 0
            /\ trace' = Append(trace, "open")
            /\ outcome' = Returns("_reset_device", <<>>)
       ELSE /\ conn' = "closed"
            /\ closes' = closes
            /\ trace' = trace
            /\ outcome' = Raises("_reset_device", "ConnectError")
  /\ peer' = StartConnectionTarget(addr)
  /\ fpc' = "idle"
  /\ UNCHANGED <<kind, debug, addr, wire, emitted, data, live, t1, wpc, tries, d, tries0,
                 readLog, appended, lastDrain, prevDrain, quiet, env, located, searches,
                 tdLast>>

Teardown_Call ==
  /\ OwnCall("td_close")
  /\ outcome' = Pending("_close_connection")

\* _close_connection as the teardown of the session
Teardown_Close ==
  /\ CloseConnection("td_close", "idle")
  /\ outcome' = IF fpc' = "idle" THEN Returns("_close_connection", <<>>) ELSE outcome

\* rpi_to_client(s): self._send_command(s)
RpiToClient ==
  /\ fpc = "idle"
  /\ \E ok \in (IF conn = "open" THEN BOOLEAN ELSE {FALSE}) :
       outcome' = IF ok THEN Returns("rpi_to_client", <<>>)
                  ELSE Raises("rpi_to_client", "WriteError")
  /\ tries' = 0
  /\ tries0' = 0
  /\ trace' = <<>>
  /\ readLog' = <<>>
  /\ lastDrain' = NoDrain
  /\ prevDrain' = NoDrain
  /\ UNCHANGED <<kind, debug, addr, peer, conn, wire, emitted, data, live, t1, wpc, fpc, d,
                 appended, quiet, env, located, searches>>
  /\ UNCHANGED <<closes, tdLast>>

\* ------------------------------------------------------------------ drain
\* client_to_rpi -> _return_collected: d = self.data[:]
RC_Copy ==
  /\ fpc = "idle"
  /\ d' = data
  /\ fpc' = "rc_clear"
  /\ outcome' = Pending("client_to_rpi")
  /\ prevDrain' = lastDrain
  /\ lastDrain' = [NoDrain EXCEPT !.app0 = appended]
  /\ tries' = 0
  /\ tries0' = 0
  /\ trace' = <<>>
  /\ readLog' = <<>>
  /\ UNCHANGED <<kind, debug, addr, peer, conn, wire, emitted, data, live, t1, wpc, appended, quiet,
                 env, located, searches>>
  /\ UNCHANGED <<closes, tdLast>>

\* a _return_collected that returns the copy and leaves the list as it is
RC_ClearMut ==
  /\ fpc = "rc_clear"
  /\ d' = <<>>
  /\ fpc' = "idle"
  /\ outcome' = Returns("client_to_rpi", <<>>)
  /\ lastDrain' = [valid |-> TRUE, got |-> d, cleared |-> data,
                   app0 |-> lastDrain.app0, app1 |-> appended]
  /\ UNCHANGED <<kind, debug, addr, peer, conn, wire, emitted, data, live, t1, wpc, tries,
                 tries0, trace, readLog, appended, prevDrain, quiet, env, located,
                 searches>>
  /\ UNCHANGED <<closes, tdLast>>

\* self.data.clear(); return d
RC_Clear ==
  /\ fpc = "rc_clear"
  /\ data' = <<>>
  /\ d' = <<>>
  /\ fpc' = "idle"
  /\ outcome' = Returns("client_to_rpi", <<>>)
  /\ lastDrain' = [valid |-> TRUE, got |-> d, cleared |-> data,
                   app0 |-> lastDrain.app0, app1 |-> appended]
  /\ UNCHANGED <<kind, debug, addr, peer, conn, wire, emitted, live, t1, wpc, tries, tries0,
                 trace, readLog, appended, prevDrain, quiet, env, located, searches>>
  /\ UNCHANGED <<closes, tdLast>>

\* -------------------------------------------------------- continuous read
FreeWorkers == {w \in Workers : wpc[w] \in {"none", "exited"}}

\* start_continuous_read: a new list, live = True, a new thread in self.t1
StartContinuousRead ==
  /\ fpc = "idle"
  /\ FreeWorkers # {}
  /\ LET w == CHOOSE x \in FreeWorkers : \A y \in FreeWorkers : x <= y IN
       /\ t1' = w
       /\ wpc' = [wpc EXCEPT ![w] = "check"]
  /\ data' = <<>>
  /\ live' = TRUE
  /\ outcome' = Returns("start_continuous_read", <<>>)
  /\ quiet' = -1
  /\ tries' = 0
  /\ tries0' = 0
  /\ trace' = <<>>
  /\ readLog' = <<>>
  /\ lastDrain' = NoDrain
  /\ prevDrain' = NoDrain
  /\ UNCHANGED <<kind, debug, addr, peer, conn, wire, emitted, fpc, d, appended, env, located,
                 searches>>
  /\ UNCHANGED <<closes, tdLast>>

\* stop_continuous_read: self.live = False (self.t1 is missing before the first start)
Stop_Clear ==
  /\ fpc = "idle"
  /\ live' = FALSE
  /\ fpc' = IF t1 = 0 THEN "idle" ELSE "stop_join"
  /\ outcome' = IF t1 = 0 THEN Raises("stop_continuous_read", "AttributeError")
                ELSE Pending("stop_continuous_read")
  /\ tries' = 0
  /\ tries0' = 0
  /\ trace' = <<>>
  /\ readLog' = <<>>
  /\ lastDrain' = NoDrain
  /\ prevDrain' = NoDrain
  /\ UNCHANGED <<kind, debug, addr, peer, conn, wire, emitted, data, t1, wpc, d, appended, quiet,
                 env, located, searches>>
  /\ UNCHANGED <<closes, tdLast>>

\* self.t1.join() returns once the thread in self.t1 has ended
Stop_Join ==
  /\ fpc = "stop_join"
  /\ wpc[t1] = "exited"
  /\ fpc' = "idle"
  /\ outcome' = Returns("stop_continuous_read", <<>>)
  /\ quiet' = appended
  /\ UNCHANGED <<kind, debug, addr, peer, conn, wire, emitted, data, live, t1, wpc, tries, d,
                 tries0, trace, readLog, appended, lastDrain, prevDrain, env, located,
                 searches>>
  /\ UNCHANGED <<closes, tdLast>>

\* a _listen whose loop does not test self.live
W_CheckMut(w) ==
  /\ wpc[w] = "check"
  /\ wpc' = [wpc EXCEPT ![w] = "poll"]
  /\ UNCHANGED <<kind, debug, addr, peer, conn, wire, emitted, data, live, t1, fpc, tries, d,
                 outcome, tries0, trace, readLog, appended, lastDrain, prevDrain, quiet,
                 env, located, searches, closes, tdLast>>

\* _listen: the test of the while loop
W_Check(w) ==
  /\ wpc[w] = "check"
  /\ wpc' = [wpc EXCEPT ![w] = IF live THEN "poll" ELSE "exited"]
  /\ UNCHANGED <<kind, debug, addr, peer, conn, wire, emitted, data, live, t1, fpc, tries, d,
                 outcome, tries0, trace, readLog, appended, lastDrain, prevDrain, quiet,
                 env, located, searches>>
  /\ UNCHANGED <<closes, tdLast>>

\* _listen: time.sleep(short_s); self._read_buffer()
W_Poll(w) ==
  /\ wpc[w] = "poll"
  /\ \E rx \in RecvSet :
       /\ wire' = WireAfter(rx)
       /\ data' = DataAfter(data, rx)
       /\ appended' = appended + (IF ReadBufferAppends(rx) THEN 1 ELSE 0)
  /\ wpc' = [wpc EXCEPT ![w] = "check"]
  /\ UNCHANGED <<kind, debug, addr, peer, conn, emitted, live, t1, fpc, tries, d, outcome,
                 tries0, trace, readLog, lastDrain, prevDrain, quiet, env, located,
                 searches>>
  /\ UNCHANGED <<closes, tdLast>>

Listener == \E w \in Workers : W_Check(w) \/ W_Poll(w)

Next ==
  \/ DeviceEmit
  \/ CtorOpen
  \/ CtorSearch
  \/ CtorOpen2
  \/ CtorClear
  \/ SR_Call
  \/ SR_Send
  \/ SR_Read
  \/ SR_Close
  \/ SR_Open
  \/ Reset_Call
  \/ Reset_Close
  \/ Reset_Open
  \/ Teardown_Call
  \/ Teardown_Close
  \/ RpiToClient
  \/ RC_Copy
  \/ RC_Clear
  \/ StartContinuousRead
  \/ Stop_Clear
  \/ Stop_Join
  \/ Listener

Spec == Init /\ [][Next]_vars

\* A thread that is inside a call takes its next step: the foreground thread when it
\* is not idle between calls, and every listener thread (reads are bounded by the
\* transport's timeout, the sleeps are finite).  Nothing forces the caller to make
\* a call or the device to send.
InCallStep ==
  \/ CtorOpen \/ CtorSearch \/ CtorOpen2 \/ CtorClear
  \/ SR_Send \/ SR_Read \/ SR_Close \/ SR_Open
  \/ Reset_Close \/ Reset_Open \/ Teardown_Close
  \/ RC_Clear \/ Stop_Join

Fairness ==
  /\ WF_vars(InCallStep)
  /\ \A w \in Workers : WF_vars(W_Check(w)) /\ WF_vars(W_Poll(w))

\* ------------------------------------------- a constructed session on its own
\* the session as __init__ leaves it when the open at the configured address
\* succeeds and nothing is pending
InitSession ==
  /\ kind \in {"LE", "LU"}
  /\ debug \in BOOLEAN
  /\ addr = device_addr
  /\ peer = device_addr
  /\ conn = "open"
  /\ wire = <<>>
  /\ emitted = 0
  /\ data = <<>>
  /\ live = FALSE
  /\ t1 = 0
  /\ wpc = [w \in Workers |-> "none"]
  /\ fpc = "idle"
  /\ tries = 0
  /\ d = <<>>
  /\ outcome = Returns("__init__", <<>>)
  /\ tries0 = 0
  /\ trace = <<>>
  /\ readLog = <<>>
  /\ appended = 0
  /\ lastDrain = NoDrain
  /\ prevDrain = NoDrain
  /\ quiet = -1
  /\ env = NoEnv
  /\ located = NoResult
  /\ searches = 0
  /\ closes = 0
  /\ tdLast = None

\* the calls that close the handle, with listeners polling beside them
NextClose ==
  \/ DeviceEmit
  \/ SR_Call
  \/ SR_Send
  \/ SR_Read
  \/ SR_Close
  \/ SR_Open
  \/ Reset_Call
  \/ Reset_Close
  \/ Reset_Open
  \/ Teardown_Call
  \/ Teardown_Close
  \/ StartContinuousRead
  \/ Listener

SpecClose == InitSession /\ [][NextClose]_vars /\ Fairness

\* ----------------------------------------------------- construction on its own
\* __init__ with up to MaxQueued frames of a previous run pending when it connects
\* and a device that sends nothing more
QueuedWires == UNION {[1..n -> Frames] : n \in 0..MaxQueued}

InitCtor ==
  /\ kind \in {"LE", "LU"}
  /\ debug \in BOOLEAN
  /\ addr = NoAddr
  /\ peer = NoAddr
  /\ conn = "closed"
  /\ wire \in QueuedWires
  /\ emitted = 0
  /\ data = <<>>
  /\ live = FALSE
  /\ t1 = 0
  /\ wpc = [w \in Workers |-> "none"]
  /\ fpc = "new"
  /\ tries = 0
  /\ d = <<>>
  /\ outcome = Pending("__init__")
  /\ tries0 = 0
  /\ trace = <<>>
  /\ readLog = <<>>
  /\ appended = 0
  /\ lastDrain = NoDrain
  /\ prevDrain = NoDrain
  /\ quiet = -1
  /\ env = NoEnv
  /\ located = NoResult
  /\ searches = 0
  /\ closes = 0
  /\ tdLast = None

NextCtor ==
  \/ CtorOpen
  \/ CtorSearch
  \/ CtorOpen2
  \/ CtorClear

SpecCtor == InitCtor /\ [][NextCtor]_vars

\* send_and_receive on a device that keeps sending
NextStream ==
  \/ DeviceEmit
  \/ DeviceStream
  \/ SR_Call
  \/ SR_Send
  \/ SR_Read
  \/ SR_Close
  \/ SR_Open

SpecStream == InitSession /\ [][NextStream]_vars /\ Fairness

\* the listener, its start and stop and the drain, on a device that may keep sending
NextListen ==
  \/ DeviceEmit
  \/ DeviceStream
  \/ StartContinuousRead
  \/ Stop_Clear
  \/ Stop_Join
  \/ RC_Copy
  \/ RC_Clear
  \/ Listener

SpecListen == InitSession /\ [][NextListen]_vars /\ Fairness

\* ------------------------------------------------------ discovery on its own
\* _search of either class run on every environment of LeScripts / LuEnvs
InitSearch ==
  /\ \/ kind = "LE" /\ env \in LeScripts
     \/ kind = "LU" /\ env \in LuEnvs
  /\ debug = FALSE
  /\ addr = device_addr
  /\ peer = device_addr
  /\ conn = "closed"
  /\ wire = <<>>
  /\ emitted = 0
  /\ data = <<>>
  /\ live = FALSE
  /\ t1 = 0
  /\ wpc = [w \in Workers |-> "none"]
  /\ fpc = "ctor_search"
  /\ tries = 0
  /\ d = <<>>
  /\ outcome = Pending("__init__")
  /\ tries0 = 0
  /\ trace = <<>>
  /\ readLog = <<>>
  /\ appended = 0
  /\ lastDrain = NoDrain
  /\ prevDrain = NoDrain
  /\ quiet = -1
  /\ located = NoResult
  /\ searches = 0
  /\ closes = 0
  /\ tdLast = None

RunSearch ==
  /\ fpc = "ctor_search"
  /\ located' = Search(env)
  /\ searches' = searches + 1
  /\ fpc' = "searched"
  /\ UNCHANGED <<kind, debug, addr, peer, conn, wire, emitted, data, live, t1, wpc, tries,
                 d, outcome, tries0, trace, readLog, appended, lastDrain, prevDrain,
                 quiet, env>>
  /\ UNCHANGED <<closes, tdLast>>

NextSearch == RunSearch

SpecSearch == InitSearch /\ [][NextSearch]_vars

\* ----------------------------------------------------------------- claims
\* a read result that is a non-empty decodable payload
Healthy(r) == r.k = "bytes" /\ r.b # <<>> /\ Utf8Valid(r.b)

Attempt == <<"send", "settle", "read">>

RECURSIVE Cycles(_)
Cycles(k) ==
  IF k = 0 THEN <<>> ELSE <<"send", "settle", "read", "close", "open">> \o Cycles(k - 1)

InSendAndReceive == outcome.op = "send_and_receive"

\* C1: when the first read of a send_and_receive call yields a non-empty decodable
\* payload, the call has returned that payload's decoded text, whatever tries was,
\* after exactly one send, one settle delay and one read, with no close and no reopen.
C1_HealthyFirstRead ==
  (InSendAndReceive /\ readLog # <<>> /\ Healthy(readLog[1])) =>
    /\ fpc = "idle"
    /\ outcome = Returns("send_and_receive", Utf8Text(readLog[1].b))
    /\ trace = Attempt
    /\ Len(readLog) = 1

C1_Witness ==
  /\ InSendAndReceive
  /\ tries0 = MaxTries
  /\ readLog = <<Bytes(<<105, 10>>)>>
  /\ outcome.k = "return"

C4_NeverRaises == (InSendAndReceive /\ ~debug) => outcome.k # "raise"

\* C5: every drain returns exactly the lines its clear removed from the list.
C5_DrainAtomic == lastDrain.valid => lastDrain.got = lastDrain.cleared

C7_QuietAfterStop == quiet >= 0 => appended = quiet

\* C8: a constructor runs _search at most once, and only after the open at the
\* configured address failed; the open that follows a search that returned goes to
\* the address found; a search that raised ends the constructor with that error,
\* with no second search and the transport not open.
C8_Construct ==
  /\ searches <= 1
  /\ fpc \in {"new", "ctor_search"} => searches = 0
  /\ fpc \in {"ctor_open2", "failed"} => searches = 1
  /\ (searches = 0 /\ fpc # "new") => (addr = device_addr /\ peer = device_addr)
  /\ (searches = 1 /\ located.status = "return") => addr = located.addr
  /\ (searches = 1 /\ located.status = "return" /\ fpc # "ctor_open2") =>
       peer = located.addr
  /\ (searches = 1 /\ located.status = "raise") =>
       (fpc = "failed" /\ outcome = Raises("__init__", located.err) /\ conn = "closed")

C8_Witness ==
  /\ fpc = "failed"
  /\ searches = 1
  /\ located.status = "raise"
  /\ outcome = Raises("__init__", "AssertionError")
  /\ conn = "closed"

\* C9: SQMLE._search returns the source of the first reply whose marker byte is 0xf7,
\* and raises when no reply has that marker byte.
C9_MarkerDecides ==
  (kind = "LE" /\ fpc = "searched") =>
    LET acc == {i \in 1..Len(env) : env[i].k = "dgram" /\ env[i].mk = 247} IN
    IF acc = {} THEN located.status = "raise"
    ELSE /\ located.status = "return"
         /\ located.addr = env[CHOOSE i \in acc : \A j \in acc : i <= j].src

\* C10: SQMLU._search returns the first candidate, in list order, that opens and
\* whose reply starts with "i", having opened no candidate after it; candidates that
\* do not open, do not reply or reply otherwise are passed over.
C10_SerialScan ==
  (kind = "LU" /\ fpc = "searched") =>
    LET ports == PortsFor(env.platform)
        good == {i \in 1..Len(ports) :
                   /\ env.beh[i - 1].open
                   /\ Utf8Valid(env.beh[i - 1].reply)
                   /\ Utf8Text(env.beh[i - 1].reply) # <<>>
                   /\ Utf8Text(env.beh[i - 1].reply)[1] = 105}
    IN IF good = {} THEN located.status = "raise" /\ located.err = "AssertionError"
       ELSE LET f == CHOOSE i \in good : \A j \in good : i <= j IN
            /\ located.status = "return"
            /\ located.addr = ports[f]
            /\ located.opened = f

\* the foreground is in the loop of _close_connection
InCloseConnection == fpc \in {"sr_close", "rs_close", "td_close"}

TrimmedText(t) == Strip(t) = t /\ \A i \in 1..Len(t) : t[i] # 10

\* C12: the text a send_and_receive call returns, and every line a drain returns, is
\* whitespace-trimmed and has no newline in it.
C12_TextTrimmed ==
  /\ (outcome.op = "send_and_receive" /\ outcome.k = "return") => TrimmedText(outcome.text)
  /\ lastDrain.valid => \A i \in 1..Len(lastDrain.got) : TrimmedText(lastDrain.got[i])

\* the foreground is between the start of _close_connection and the end of
\* start_connection
ResetInProgress == fpc \in {"sr_close", "sr_open", "rs_close", "rs_open"}

\* C13: no listener thread executes its _read_buffer while a foreground reset is in
\* progress, on a handle that is not open, or while a send_and_receive call is
\* waiting to read the reply that is pending.
C13_Exclusive ==
  [][(\E w \in Workers : W_Poll(w)) =>
       /\ ~ResetInProgress
       /\ conn = "open"
       /\ ~(fpc = "sr_read" /\ wire # <<>>)]_vars

\* C14: at most one listener thread is alive at any time.
C14_OneWorker == Cardinality({w \in Workers : wpc[w] \in {"check", "poll"}}) <= 1

\* C15: when a constructor has returned, no frame that was pending when it connected
\* is still pending on the transport.
C15_StaleDrained ==
  (outcome = Returns("__init__", <<>>) /\ fpc = "idle") => wire = <<>>

\* the constructor has returned
Constructed == fpc \notin {"new", "ctor_search", "ctor_open2", "ctor_clear", "failed"}

\* the address the constructor settled on
Established == IF searches = 0 THEN device_addr ELSE located.addr

\* C16: once the constructor has returned, no step of any call changes self.addr or
\* runs _search, and every open goes to the address the constructor settled on.
C16_AddressKept ==
  /\ [](Constructed => (addr = Established /\ peer = Established))
  /\ [][Constructed =>
          (addr' = addr /\ searches' = searches /\ located' = located /\ peer' = addr)]_vars

C16_Witness ==
  /\ outcome.op = "send_and_receive"
  /\ Len(trace) > 0
  /\ trace[Len(trace)] = "open"
  /\ searches = 1
  /\ addr # device_addr
  /\ peer = addr

\* C17: self.data changes only in a read of a listener thread, which appends to it,
\* and in the clear of a drain, which empties it.
C17_BufferOwners ==
  [][data' # data =>
       \/ \E w \in Workers : W_Poll(w) /\ Len(data') = Len(data) + 1
       \/ RC_Clear]_vars

\* the frame a read on the open handle takes is a non-empty decodable payload
HealthyHead == conn = "open" /\ wire # <<>> /\ Healthy(Bytes(Head(wire)))

\* what a _read_buffer made now returns
ReadNow == IF conn = "open" /\ wire # <<>> THEN Bytes(Head(wire)) ELSE None

RECURSIVE Sends(_)
Sends(tr) ==
  IF tr = <<>> THEN 0 ELSE (IF Head(tr) = "send" THEN 1 ELSE 0) + Sends(Tail(tr))

\* C19: a send_and_receive(s, tries) call makes at most tries + 1 attempts and, once
\* begun, returns or raises, whatever the device does.
C19_CallCompletes ==
  /\ [](InSendAndReceive => Sends(trace) <= tries0 + 1)
  /\ (outcome = Pending("send_and_receive") ~> outcome.k # "pending")

\* C20: while stop_continuous_read waits, self.live stays False; while self.live is
\* False no listener thread begins another poll iteration (a thread that is in one
\* finishes it, with its one read, and then exits); stop_continuous_read returns only
\* when the thread it joins has exited; and it does return.
C20_StopGraceful ==
  /\ [](fpc = "stop_join" => ~live)
  /\ [][(~live /\ ~live') =>
          \A w \in Workers :
            /\ (wpc'[w] = "poll" => wpc[w] = "poll")
            /\ (wpc[w] = "check" /\ wpc'[w] # "check" => wpc'[w] = "exited")]_vars
  /\ [][(fpc = "stop_join" /\ fpc' = "idle") => wpc[t1] = "exited"]_vars
  /\ (fpc = "stop_join" ~> fpc = "idle")

C20_Witness ==
  /\ outcome = Returns("stop_continuous_read", <<>>)
  /\ fpc = "idle"
  /\ wpc[t1] = "exited"
  /\ quiet = MaxFrames
  /\ appended = MaxFrames

====
